---- MODULE Spec2Model ----
(***************************************************************************)
(* Model of cc2olx/olx.py: OlxExport, the conversion of a normalized       *)
(* Common Cartridge outline into an OLX document tree, and process_link.   *)
(*                                                                         *)
(* Text is modelled as a sequence of chunks; the text is the concatenation *)
(* of its chunks.  The chunk alphabet is chosen so that every pattern the  *)
(* code searches for (the attribute regex, the placeholder tokens, "?",    *)
(* "&amp;", a percent escape, the YouTube regex) is a sequence of whole    *)
(* chunks and can occur in a text only aligned on chunk boundaries:        *)
(*   - a double quote occurs only as the chunk Q,                          *)
(*   - "src=" / "href=" occur only as the chunks of AttrNames,             *)
(*   - "$", "%", "?", "&amp;" occur only as chunks of their own,           *)
(*   - the two hex digits of a percent escape are one chunk (HexPairs),    *)
(*     and no other chunk starts with a hex digit,                         *)
(*   - no chunk holds a line break (the regex "." never has to refuse).    *)
(***************************************************************************)
EXTENDS Naturals, Sequences, FiniteSets, TLC

VARIABLES
    outline,             \* cartridge.normalized["children"]
    link_file,           \* OlxExport.link_file given (TRUE) or None (FALSE)
    resource_id_by_href, \* cartridge.resource_id_by_href, in iteration order
    doc,                 \* self.doc: the elements appended so far, in order
    stack,               \* the active calls of _add_olx_nodes, innermost last
    status,              \* "init", "running", "done" or "error" (of xml())
    exc,                 \* the exception that left xml(), when status = "error"
    result,              \* what xml() returned
    html_in,             \* argument of _process_static_links
    html_out,            \* its result
    html_out2,           \* the result of a second pass over html_out
    warnings,            \* items logged by logger.warn, in order
    lpc                  \* position of the rewriting run: "start", "pass1", "pass2"

walkVars == <<outline, link_file, doc, stack, status, exc, result>>
linkVars == <<html_in, html_out, html_out2, warnings, lpc>>
vars == <<outline, link_file, resource_id_by_href, doc, stack, status, exc,
          result, html_in, html_out, html_out2, warnings, lpc>>

(***************************************************************************)
(* Bounds of the model.                                                    *)
(***************************************************************************)
MaxAttrs == 2    \* src/href attributes in one HTML input
MaxLeaves == 2   \* leaf nodes under one vertical
MaxNest == 1     \* levels of children below a leaf-level node

(***************************************************************************)
(* Python string operations, on chunk sequences.                           *)
(***************************************************************************)
Q == "\""
AttrNames == {"src=", "href="}
HexPairs == {"20", "24", "25", "3F"}

\* chr(int(pair, 16)) for the escapes of the alphabet
HexChar(p) ==
    CASE p = "20" -> " "
      [] p = "24" -> "$"
      [] p = "25" -> "%"
      [] p = "3F" -> "?"

FILEBASE == <<"$", "IMS-CC-FILEBASE", "$">>
WIKIPAGES == <<"$", "WIKI_REFERENCE", "$", "/pages/">>

\* s[i:]
From(s, i) == SubSeq(s, i, Len(s))

\* s[i:].startswith(p)
MatchAt(s, i, p) ==
    /\ i + Len(p) - 1 <= Len(s)
    /\ SubSeq(s, i, i + Len(p) - 1) = p

\* p in s
Contains(s, p) == \E i \in 1..(Len(s) + 1) : MatchAt(s, i, p)

\* s.endswith(p)
EndsWith(s, p) == Len(p) <= Len(s) /\ From(s, Len(s) - Len(p) + 1) = p

RECURSIVE ReplaceFrom(_, _, _, _)
ReplaceFrom(s, i, old, new) ==
    IF i > Len(s) THEN <<>>
    ELSE IF MatchAt(s, i, old) THEN new \o ReplaceFrom(s, i + Len(old), old, new)
    ELSE <<s[i]>> \o ReplaceFrom(s, i + 1, old, new)

\* s.replace(old, new): every non-overlapping occurrence, from the left.
\* (old is never empty here: it is a fixed token or a regex group of .+?)
Replace(s, old, new) == IF old = <<>> THEN s ELSE ReplaceFrom(s, 1, old, new)

\* urllib.parse.unquote(s): one pass, a decoded character is not decoded again
RECURSIVE Unquote(_)
Unquote(s) ==
    IF s = <<>> THEN <<>>
    ELSE IF Len(s) >= 2 /\ s[1] = "%" /\ s[2] \in HexPairs
         THEN <<HexChar(s[2])>> \o Unquote(From(s, 3))
         ELSE <<s[1]>> \o Unquote(Tail(s))

\* s.split("?")[0]
RECURSIVE SplitQuery(_)
SplitQuery(s) ==
    IF s = <<>> THEN <<>>
    ELSE IF s[1] = "?" THEN <<>>
    ELSE <<s[1]>> \o SplitQuery(Tail(s))

\* least j >= i with a double quote at j, 0 when there is none
RECURSIVE FindQuote(_, _)
FindQuote(h, i) ==
    IF i > Len(h) THEN 0
    ELSE IF h[i] = Q THEN i
    ELSE FindQuote(h, i + 1)

\* re.findall(r'(src|href)\s*=\s*"(.+?)"', html): the (name, value) groups of
\* the non-overlapping matches, left to right.  .+? takes at least one
\* character (which may itself be a quote) and stops at the next quote.
RECURSIVE FindAllFrom(_, _)
FindAllFrom(h, i) ==
    IF i + 1 > Len(h) THEN <<>>
    ELSE IF h[i] \in AttrNames /\ h[i + 1] = Q
         THEN LET j == FindQuote(h, i + 3)
              IN  IF j = 0 THEN FindAllFrom(h, i + 1)
                  ELSE <<<<h[i], SubSeq(h, i + 2, j - 1)>>>> \o FindAllFrom(h, j + 1)
         ELSE FindAllFrom(h, i + 1)

FindAll(h) == FindAllFrom(h, 1)

(***************************************************************************)
(* OlxExport._process_static_links                                         *)
(***************************************************************************)
\* first (key, id) of the index, in iteration order, whose key ends with
\* search_key; <<>> when there is none
RECURSIVE FirstKeyEndingWith(_, _)
FirstKeyEndingWith(index, search_key) ==
    IF index = <<>> THEN <<>>
    ELSE IF EndsWith(index[1].key, search_key) THEN <<index[1]>>
    ELSE FirstKeyEndingWith(Tail(index), search_key)

\* the normalized key of process_wiki_reference
WikiSearchKey(item) == SplitQuery(Replace(Unquote(item), WIKIPAGES, <<>>)) \o <<".html">>

\* process_wiki_reference(item, html): the html and the items warned about
process_wiki_reference(item, html, index) ==
    LET hit == FirstKeyEndingWith(index, WikiSearchKey(item))
    IN  IF hit # <<>>
        THEN [html |-> Replace(html, item, <<"/jump_to_id/", hit[1].id>>), warned |-> <<>>]
        ELSE [html |-> html, warned |-> <<item>>]

\* the replacement text of process_ims_cc_filebase
FilebaseNewItem(item) ==
    Replace(SplitQuery(Replace(Unquote(item), FILEBASE, <<"/static">>)), <<"&amp;">>, <<"&">>)

\* process_ims_cc_filebase(item, html)
process_ims_cc_filebase(item, html) == Replace(html, item, FilebaseNewItem(item))

\* the loop body without its test for the IMS-CC-FILEBASE token
StaticLinkStep_NoTokenTest(acc, item, index) ==
    [html |-> process_ims_cc_filebase(item, acc.html), warned |-> acc.warned]

\* one iteration of "for _, item in items"
StaticLinkStep(acc, item, index) ==
    IF Contains(item, <<"IMS-CC-FILEBASE">>)
    THEN [html |-> process_ims_cc_filebase(item, acc.html), warned |-> acc.warned]
    ELSE IF Contains(item, <<"WIKI_REFERENCE">>)
         THEN LET r == process_wiki_reference(item, acc.html, index)
              IN  [html |-> r.html, warned |-> acc.warned \o r.warned]
         ELSE acc

RECURSIVE StaticLinkLoop(_, _, _)
StaticLinkLoop(acc, items, index) ==
    IF items = <<>> THEN acc
    ELSE StaticLinkLoop(StaticLinkStep(acc, items[1][2], index), Tail(items), index)

\* _process_static_links(html): the rewritten html and the warnings logged
process_static_links(html, index) ==
    StaticLinkLoop([html |-> html, warned |-> <<>>], FindAll(html), index)

(***************************************************************************)
(* Python values the code passes around.                                   *)
(***************************************************************************)
None == "None"

\* content types (class attributes of OlxExport)
HTML == "html"
LINK == "link"
VIDEO == "video"
LTI == "lti"
QTI == "qti"
DISCUSSION == "discussion"

NoAttrs == <<>>

\* a DOM element not yet in the tree: tag, attributes, CDATA sections
Element(tag, attrs, cdata) == [tag |-> tag, attrs |-> attrs, cdata |-> cdata]

\* element.setAttribute(name, value)
SetAttribute(el, name, value) == [el EXCEPT !.attrs = (name :> value) @@ el.attrs]

\* a Python list, and a Python object that is a single DOM element
PyList(items) == [py |-> "list", items |-> items]
PyElement(el) == [py |-> "Element", items |-> <<el>>]

Returned(nodes) == [raised |-> FALSE, nodes |-> nodes, exc |-> <<>>]
Raised(type, arg) == [raised |-> TRUE, nodes |-> <<>>, exc |-> [type |-> type, arg |-> arg]]

\* nodes += value: list.extend(value) iterates value; a minidom Element is
\* not iterable, and the statement raises TypeError
IAdd(nodes, value) ==
    IF value.py = "list" THEN Returned(nodes \o value.items)
    ELSE Raised("TypeError", "'Element' object is not iterable")

\* tags passed on unshortened
Slice1_Keep(tags) == tags

\* tags[1:]
Slice1(tags) == IF tags = <<>> THEN <<>> ELSE Tail(tags)

(***************************************************************************)
(* process_link                                                            *)
(***************************************************************************)
SingleChars == {".", "_"}                 \* chunks of one character
WordChunks == {"ABC123", "gQ-cZRmHfs4", "_"}   \* chunks made of [-\w] only

\* the longest run of [-\w] chunks of s from i on
RECURSIVE WordRun(_, _)
WordRun(s, i) ==
    IF i > Len(s) \/ s[i] \notin WordChunks THEN <<>>
    ELSE <<s[i]>> \o WordRun(s, i + 1)

\* re.search(r"youtube.com/watch\?v=([-\w]+)", href): group 1 of the
\* leftmost match, <<>> when nothing matches.  The "." of the pattern is
\* not escaped and matches any single character.
RECURSIVE YtSearchFrom(_, _)
YtSearchFrom(href, i) ==
    IF i + 3 > Len(href) THEN <<>>
    ELSE IF /\ href[i] = "youtube"
            /\ href[i + 1] \in SingleChars
            /\ href[i + 2] = "com/watch?v="
            /\ href[i + 3] \in WordChunks
         THEN WordRun(href, i + 3)
         ELSE YtSearchFrom(href, i + 1)

YtSearch(href) == YtSearchFrom(href, 1)

\* details.get("text", "")
GetText(details) == IF "text" \in DOMAIN details THEN details.text ELSE <<>>

process_link(details) ==
    LET ytmatch == YtSearch(details.href)
    IN  IF ytmatch # <<>>
        THEN [content_type |-> "video", details |-> [youtube |-> ytmatch]]
        ELSE [content_type |-> "html",
              details |-> [html |-> <<"<a href='">> \o details.href \o <<"'>">>
                                     \o GetText(details) \o <<"</a>">>]]

(***************************************************************************)
(* The cartridge: the resources an identifierref can resolve to.           *)
(***************************************************************************)
MISSING_CONTENT == <<"<p>MISSING CONTENT</p>">>

StaticImg == <<"<img ", "src=", Q>> \o FILEBASE \o <<"/img/a.png", "?", "x=1", "&amp;", "y=2", Q, ">">>
KalturaIframe == "<iframe kaltura/>"
OtherIframe == "<iframe other/>"
IframeChunks == {KalturaIframe, OtherIframe}

Refs == {"res_html", "res_iframe", "res_link_yt", "res_link", "res_link_odd", "res_video",
         "res_lti", "res_qti", "res_qti_empty", "res_disc", "res_pdf", "res_gone"}

\* cartridge.get_resource_content(idref)
get_resource_content(idref) ==
    CASE idref = "res_html" ->
           [content_type |-> HTML, details |-> [html |-> <<"<p>">> \o StaticImg \o <<"</p>">>]]
      [] idref = "res_iframe" ->
           [content_type |-> HTML,
            details |-> [html |-> <<"<div>", KalturaIframe, "text", OtherIframe, "</div>">>]]
      [] idref = "res_link_yt" ->
           [content_type |-> LINK,
            details |-> [href |-> <<"https://www.", "youtube", ".", "com/watch?v=", "ABC123", "&list=XYZ">>]]
      [] idref = "res_link" ->
           [content_type |-> LINK,
            details |-> [href |-> <<"https://example.org/x">>, text |-> <<"Example">>]]
      [] idref = "res_link_odd" ->
           [content_type |-> LINK,
            details |-> [href |-> <<"https://not", "youtube", "_", "com/watch?v=", "gQ-cZRmHfs4">>]]
      [] idref = "res_video" ->
           [content_type |-> VIDEO, details |-> [youtube |-> <<"gQ-cZRmHfs4">>]]
      [] idref = "res_lti" ->
           [content_type |-> LTI,
            details |-> [custom_parameters |-> <<[key |-> "k1", value |-> "v1"], [key |-> "k2", value |-> "v2"]>>,
                         description |-> "tool", title |-> "Tool", height |-> "500",
                         width |-> "500", launch_url |-> "https://lti.example/launch"]]
      [] idref = "res_qti" ->
           [content_type |-> QTI, details |-> <<"q1", "q2">>]
      [] idref = "res_qti_empty" ->
           [content_type |-> QTI, details |-> <<>>]
      [] idref = "res_disc" ->
           [content_type |-> DISCUSSION,
            details |-> [title |-> "Forum", text |-> <<"<p>">> \o StaticImg \o <<KalturaIframe, "</p>">>]]
      [] idref = "res_pdf" ->
           [content_type |-> "pdf", details |-> [href |-> <<"doc.pdf">>]]
      [] OTHER ->
           [content_type |-> None, details |-> None]

\* OlxExport._get_content
get_content(element_data) ==
    LET looked == IF "identifierref" \in DOMAIN element_data
                  THEN get_resource_content(element_data.identifierref)
                  ELSE [content_type |-> None, details |-> None]
        found == IF looked.content_type = None
                 THEN [content_type |-> HTML, details |-> [html |-> MISSING_CONTENT]]
                 ELSE looked
    IN  IF found.content_type = LINK THEN process_link(found.details) ELSE found

(***************************************************************************)
(* Node synthesis: OlxExport._create_olx_nodes and what it calls.          *)
(***************************************************************************)
\* cc2olx.utils.element_builder(doc)(name, children=None, attributes=...)
element_builder(name, attributes) == Element(name, attributes, <<>>)

\* OlxExport._create_video_node: returns the element itself
create_video_node(details) ==
    PyElement(element_builder("video",
        [youtube |-> <<"1.00:">> \o details.youtube, youtube_id_1_0 |-> details.youtube]))

\* the elements parsed_html.xpath("//iframe") finds, as positions in the text
Iframes(html_str) == {i \in 1..Len(html_str) : html_str[i] \in IframeChunks}

\* KalturaIframeLinkParser.get_video_olx(doc, iframes): the iframes it converts
ConvertedIframes(html_str) == {i \in Iframes(html_str) : html_str[i] = KalturaIframe}

\* ... and the video elements it returns, one for each, in document order
RECURSIVE VideoOlx(_, _)
VideoOlx(html_str, i) ==
    IF i > Len(html_str) THEN <<>>
    ELSE IF i \in ConvertedIframes(html_str)
         THEN <<Element("video", [edx_video_id |-> "kaltura"], <<>>)>> \o VideoOlx(html_str, i + 1)
         ELSE VideoOlx(html_str, i + 1)

\* the parsed tree after iframe.getparent().remove(iframe) for each converted one
RECURSIVE RemoveIframes(_, _)
RemoveIframes(html_str, i) ==
    IF i > Len(html_str) THEN <<>>
    ELSE IF i \in ConvertedIframes(html_str) THEN RemoveIframes(html_str, i + 1)
    ELSE <<html_str[i]>> \o RemoveIframes(html_str, i + 1)

\* lxml's html.tostring(parsed_html).decode('utf-8'): a serialization of the
\* parsed tree, which is not the text that was parsed
HtmlToString(tree) == <<"lxml.tostring[">> \o tree \o <<"]">>

\* OlxExport._process_html_for_iframe
process_html_for_iframe(html_str) ==
    LET video_olx == VideoOlx(html_str, 1)
    IN  IF Iframes(html_str) = {} THEN [html |-> html_str, video_olx |-> <<>>]
        ELSE IF video_olx # <<>>
             THEN [html |-> HtmlToString(RemoveIframes(html_str, 1)), video_olx |-> video_olx]
             ELSE [html |-> html_str, video_olx |-> video_olx]

\* OlxExport._process_html
process_html(details, linkFile, index) ==
    LET html == process_static_links(details.html, index).html
        r == IF linkFile THEN process_html_for_iframe(html)
             ELSE [html |-> html, video_olx |-> <<>>]
    IN  PyList(<<Element("html", NoAttrs, <<r.html>>)>> \o r.video_olx)

\* ", ".join('"{key}={value}"' ...) over details["custom_parameters"].items()
RECURSIVE JoinParams(_)
JoinParams(items) ==
    IF items = <<>> THEN <<>>
    ELSE <<Q, items[1].key, "=", items[1].value, Q>>
         \o (IF Len(items) > 1 THEN <<", ">> ELSE <<>>) \o JoinParams(Tail(items))

\* OlxExport._create_lti_node
create_lti_node(details) ==
    Element("lti_consumer",
        [custom_parameters |-> <<"[">> \o JoinParams(details.custom_parameters) \o <<"]">>,
         description |-> details.description,
         display_name |-> details.title,
         inline_height |-> details.height,
         inline_width |-> details.width,
         launch_url |-> details.launch_url,
         modal_height |-> details.height,
         modal_width |-> details.width]
        @@ ("xblock-family" :> "xblock.v1"),
        <<>>)

\* the discussion text sent through the static-link rewriting
create_discussion_node_rewritten(details) ==
    PyList(<<Element("html", NoAttrs, <<process_static_links(details.text, resource_id_by_href).html>>),
             Element("discussion",
                 [display_name |-> "", discussion_category |-> details.title,
                  discussion_target |-> details.title],
                 <<>>)>>)

\* OlxExport._create_discussion_node
create_discussion_node(details) ==
    PyList(<<Element("html", NoAttrs, <<details.text>>),
             Element("discussion",
                 [display_name |-> "", discussion_category |-> details.title,
                  discussion_target |-> details.title],
                 <<>>)>>)

\* QtiExport(doc).create_qti_node(details): one problem element per question
create_qti_node(details) ==
    PyList([k \in 1..Len(details) |-> Element("problem", [question |-> details[k]], <<>>)])

\* the dispatch with an unsupported type skipped instead of refused
create_olx_nodes_silent(content_type, details, linkFile, index) ==
    CASE content_type = HTML -> IAdd(<<>>, process_html(details, linkFile, index))
      [] content_type = VIDEO -> IAdd(<<>>, create_video_node(details))
      [] content_type = LTI -> Returned(Append(<<>>, create_lti_node(details)))
      [] content_type = QTI -> IAdd(<<>>, create_qti_node(details))
      [] content_type = DISCUSSION -> IAdd(<<>>, create_discussion_node(details))
      [] OTHER -> Returned(<<>>)

\* OlxExport._create_olx_nodes
create_olx_nodes(content_type, details, linkFile, index) ==
    CASE content_type = HTML -> IAdd(<<>>, process_html(details, linkFile, index))
      [] content_type = VIDEO -> IAdd(<<>>, create_video_node(details))
      [] content_type = LTI -> Returned(Append(<<>>, create_lti_node(details)))
      [] content_type = QTI -> IAdd(<<>>, create_qti_node(details))
      [] content_type = DISCUSSION -> IAdd(<<>>, create_discussion_node(details))
      [] OTHER -> Raised("OlxExportException", content_type)

(***************************************************************************)
(* OlxExport.xml and the recursion of OlxExport._add_olx_nodes, one call   *)
(* of _add_olx_nodes per stack frame.                                      *)
(***************************************************************************)
Tags == <<"chapter", "sequential", "vertical">>

NoExc == [type |-> "none", arg |-> "none"]
NoResult == <<>>

\* a call _add_olx_nodes(element, course_data, tags) about to start its loop;
\* element is the position of the parent element in doc, path the position
\* of course_data in the outline
Frame(element, course_data, tags, path) ==
    [element |-> element, course_data |-> course_data, tags |-> tags, path |-> path,
     i |-> 1, pc |-> "element", children |-> <<>>, j |-> 1,
     content_type |-> None]

\* a node of the tree: parent is its parent's position in doc (0 for the
\* document itself), origin the path of the outline node it was made for
Attached(el, parent, origin) ==
    [tag |-> el.tag, attrs |-> el.attrs, cdata |-> el.cdata, parent |-> parent, origin |-> origin]

Top == stack[Len(stack)]
SetTop(f) == [stack EXCEPT ![Len(stack)] = f]
ElementData(f) == f.course_data[f.i]

\* the children the loop body computes for element_data
ChildrenOf(f) ==
    IF f.tags = <<>>
    THEN LET c == get_content(ElementData(f))
         IN  create_olx_nodes(c.content_type, c.details, link_file, resource_id_by_href)
    ELSE Returned(<<Element(f.tags[1], NoAttrs, <<>>)>>)

\* the attributes lines 91-93 set on a child; url_name needs the key
\* "identifierref" (KeyError without it)
Titled(child, element_data) ==
    IF "title" \in DOMAIN element_data
    THEN IF "identifierref" \in DOMAIN element_data
         THEN Returned(<<SetAttribute(SetAttribute(child, "display_name", element_data.title),
                                      "url_name", element_data.identifierref)>>)
         ELSE Raised("KeyError", "identifierref")
    ELSE Returned(<<child>>)

\* xml(), up to the first call of _add_olx_nodes
XmlStart ==
    /\ status = "init"
    /\ status' = "running"
    /\ doc' = <<Attached(Element("#comment", NoAttrs, <<<<" Generated by cc2olx ">>>>), 0, <<>>),
                Attached(Element("course",
                   [org |-> "org", course |-> "Some_cc_Course", name |-> "title"], <<>>),
                   0, <<>>)>>
    /\ stack' = <<Frame(2, outline, Tags, <<>>)>>
    /\ UNCHANGED <<outline, link_file, resource_id_by_href, exc, result, linkVars>>

\* lines 83-88: the next element_data, its children computed
VisitElement ==
    /\ status = "running"
    /\ Top.pc = "element"
    /\ Top.i <= Len(Top.course_data)
    /\ ~ChildrenOf(Top).raised
    /\ stack' = SetTop([Top EXCEPT !.children = ChildrenOf(Top).nodes, !.j = 1, !.pc = "child",
                                   !.content_type = IF Top.tags = <<>>
                                                    THEN get_content(ElementData(Top)).content_type
                                                    ELSE None])
    /\ UNCHANGED <<outline, link_file, resource_id_by_href, doc, status, exc, result, linkVars>>

\* lines 85-86 raise: the exception leaves every active call and xml()
VisitElementRaises ==
    /\ status = "running"
    /\ Top.pc = "element"
    /\ Top.i <= Len(Top.course_data)
    /\ ChildrenOf(Top).raised
    /\ status' = "error"
    /\ exc' = ChildrenOf(Top).exc
    /\ stack' = SetTop([Top EXCEPT !.content_type = get_content(ElementData(Top)).content_type])
    /\ UNCHANGED <<outline, link_file, resource_id_by_href, doc, result, linkVars>>

\* lines 90-98: the next child gets its attributes and is appended; with
\* "children" in element_data, _add_olx_nodes is called on them
AppendChild ==
    /\ status = "running"
    /\ Top.pc = "child"
    /\ Top.j <= Len(Top.children)
    /\ LET f == Top
           element_data == ElementData(f)
           t == Titled(f.children[f.j], element_data)
           origin == f.path \o <<f.i>>
           caller == [f EXCEPT !.j = f.j + 1]
       IN  /\ ~t.raised
           /\ doc' = Append(doc, Attached(t.nodes[1], f.element, origin))
           /\ stack' = IF "children" \in DOMAIN element_data
                       THEN Append(SetTop(caller),
                                   Frame(Len(doc) + 1, element_data.children, Slice1(f.tags), origin))
                       ELSE SetTop(caller)
    /\ UNCHANGED <<outline, link_file, resource_id_by_href, status, exc, result, linkVars>>

\* line 93 raises KeyError
AppendChildRaises ==
    /\ status = "running"
    /\ Top.pc = "child"
    /\ Top.j <= Len(Top.children)
    /\ Titled(Top.children[Top.j], ElementData(Top)).raised
    /\ status' = "error"
    /\ exc' = Titled(Top.children[Top.j], ElementData(Top)).exc
    /\ UNCHANGED <<outline, link_file, resource_id_by_href, doc, stack, result, linkVars>>

\* the loop over children is over: on to the next element_data
NextElement ==
    /\ status = "running"
    /\ Top.pc = "child"
    /\ Top.j > Len(Top.children)
    /\ stack' = SetTop([Top EXCEPT !.i = Top.i + 1, !.pc = "element"])
    /\ UNCHANGED <<outline, link_file, resource_id_by_href, doc, status, exc, result, linkVars>>

\* the loop over course_data is over: the call returns to its caller
Return ==
    /\ status = "running"
    /\ Len(stack) > 1
    /\ Top.pc = "element"
    /\ Top.i > Len(Top.course_data)
    /\ stack' = SubSeq(stack, 1, Len(stack) - 1)
    /\ UNCHANGED <<outline, link_file, resource_id_by_href, doc, status, exc, result, linkVars>>

\* the outermost call returns: xml() returns self.doc.toprettyxml()
XmlReturn ==
    /\ status = "running"
    /\ Len(stack) = 1
    /\ Top.pc = "element"
    /\ Top.i > Len(Top.course_data)
    /\ stack' = <<>>
    /\ status' = "done"
    /\ result' = <<[toprettyxml |-> doc]>>
    /\ UNCHANGED <<outline, link_file, resource_id_by_href, doc, exc, linkVars>>

(***************************************************************************)
(* Inputs: the outlines and the HTML texts the runs start from.            *)
(***************************************************************************)
\* the sequences over S of length 1..n
SeqsUpTo(S, n) == UNION {[1..k -> S] : k \in 1..n}

NoKeys == <<>>
WithChildren(node, kids) == node @@ [children |-> kids]

\* the keys other than "children" a leaf-level node may carry
LeafAttrs ==
    {NoKeys, [title |-> "Unit"]}
    \cup {[identifierref |-> r] : r \in Refs}
    \cup {[title |-> "Unit", identifierref |-> r] : r \in {"res_html", "res_disc", "res_lti", "res_gone"}}

\* chapter > sequential > vertical, without keys of their own, over leaves
Spine(leaves) ==
    WithChildren(NoKeys, <<WithChildren(NoKeys, <<WithChildren(NoKeys, leaves)>>)>>)

\* verticals holding 1..MaxLeaves leaves without children
FlatOutlines == {<<Spine(leaves)>> : leaves \in SeqsUpTo(LeafAttrs, MaxLeaves)}

\* leaf-level nodes that carry children, nested up to n levels
SubAttrs == {NoKeys, [identifierref |-> "res_disc"], [identifierref |-> "res_pdf"]}
ParentAttrs ==
    {NoKeys, [identifierref |-> "res_html"], [identifierref |-> "res_disc"],
     [title |-> "Unit", identifierref |-> "res_html"],
     [title |-> "Unit", identifierref |-> "res_disc"]}

RECURSIVE NestNodes(_)
NestNodes(n) ==
    IF n = 0 THEN SubAttrs
    ELSE NestNodes(n - 1)
         \cup {WithChildren(a, <<k>>) : a \in SubAttrs, k \in NestNodes(n - 1)}

NestedOutlines ==
    {<<Spine(<<WithChildren(p, kids)>>)>> :
        p \in ParentAttrs, kids \in SeqsUpTo(NestNodes(MaxNest - 1), 2)}

\* branches that end before the third container level, containers with and
\* without title and identifierref
ContainerAttrs == {NoKeys, [title |-> "Part", identifierref |-> "item1"], [title |-> "Part"]}
BottomLeaves == {[identifierref |-> "res_html"], [title |-> "Unit", identifierref |-> "res_disc"]}

RECURSIVE Branches(_)
Branches(d) ==
    IF d = 0 THEN BottomLeaves
    ELSE ContainerAttrs
         \cup {WithChildren(a, <<>>) : a \in ContainerAttrs}
         \cup {WithChildren(a, <<k>>) : a \in ContainerAttrs, k \in Branches(d - 1)}

BranchOutlines == {<<>>} \cup {<<c>> : c \in Branches(3)}

\* several chapters, sequentials and verticals
Wide(leaf) ==
    WithChildren(NoKeys,
        <<WithChildren(NoKeys, <<WithChildren(NoKeys, <<leaf>>), WithChildren(NoKeys, <<leaf>>)>>),
          WithChildren(NoKeys, <<>>)>>)
WideOutlines ==
    {<<Wide(a), Spine(<<b>>)>> : a \in BottomLeaves, b \in SubAttrs}

Outlines == FlatOutlines \cup NestedOutlines \cup BranchOutlines \cup WideOutlines

\* cartridge.resource_id_by_href
PageA == <<"wiki_content/", "page-a", ".html">>
PageA2 == <<"wiki_content/", "page-a", "-2", ".html">>
Index1 == <<[key |-> PageA, id |-> "res_page_a"]>>
Index2 == <<[key |-> PageA2, id |-> "res_page_a2"], [key |-> PageA, id |-> "res_page_a"]>>
Indexes == {<<>>, Index1, Index2}

\* values of src/href attributes
AttrValues ==
    {FILEBASE \o <<"/img/a.png", "?", "x=1", "&amp;", "y=2">>,
     FILEBASE \o <<"/img/a.png">>,
     FILEBASE \o <<"/img/a.png", "%", "20", "-b">>,
     FILEBASE \o <<"/img/c", "&amp;", "d.png">>,
     <<"%", "24", "IMS-CC-FILEBASE", "%", "24", "/e.png">>,
     <<"IMS-CC-FILEBASE", "/f", "%", "25", "20", "g.png">>,
     <<"/plain/h.png", "?", "x=1">>,
     <<"/plain/i", "%", "25", "20", "j.png">>,
     WIKIPAGES \o <<"page-a">>,
     WIKIPAGES \o <<"page-a", "?", "x=1">>,
     WIKIPAGES \o <<"page-a", "-2">>,
     WIKIPAGES \o <<"page-z">>}

AttrNameOf(v) == IF Contains(v, <<"WIKI_REFERENCE">>) THEN "href=" ELSE "src="

RECURSIVE Tagged(_)
Tagged(values) ==
    IF values = <<>> THEN <<>>
    ELSE <<"<a ", AttrNameOf(values[1]), Q>> \o values[1] \o <<Q, ">">> \o Tagged(Tail(values))

\* text after the attributes, outside every attribute value
Tails == {<<>>, <<"see ">> \o FILEBASE \o <<"/img/a.png">>}

HtmlInputs == {Tagged(vs) \o t : vs \in SeqsUpTo(AttrValues, MaxAttrs), t \in Tails}

(***************************************************************************)
(* A run of _process_static_links, and a second run over its result.       *)
(***************************************************************************)
RewritePass1 ==
    /\ lpc = "start"
    /\ html_out' = process_static_links(html_in, resource_id_by_href).html
    /\ warnings' = process_static_links(html_in, resource_id_by_href).warned
    /\ lpc' = "pass1"
    /\ UNCHANGED <<html_in, html_out2, resource_id_by_href, walkVars>>

RewritePass2 ==
    /\ lpc = "pass1"
    /\ html_out2' = process_static_links(html_out, resource_id_by_href).html
    /\ warnings' = warnings \o process_static_links(html_out, resource_id_by_href).warned
    /\ lpc' = "pass2"
    /\ UNCHANGED <<html_in, html_out, resource_id_by_href, walkVars>>

(***************************************************************************)
(* Specifications.                                                         *)
(***************************************************************************)
WalkIdle ==
    /\ outline = <<>>
    /\ link_file = FALSE
    /\ doc = <<>>
    /\ stack = <<>>
    /\ status = "idle"
    /\ exc = NoExc
    /\ result = NoResult

LinksIdle ==
    /\ html_in = <<>>
    /\ html_out = <<>>
    /\ html_out2 = <<>>
    /\ warnings = <<>>
    /\ lpc = "idle"

\* OlxExport(cartridge, link_file) constructed, xml() not yet called
Init ==
    /\ outline \in Outlines
    /\ link_file \in BOOLEAN
    /\ resource_id_by_href = Index1
    /\ doc = <<>>
    /\ stack = <<>>
    /\ status = "init"
    /\ exc = NoExc
    /\ result = NoResult
    /\ LinksIdle

Next ==
    \/ XmlStart
    \/ VisitElement
    \/ VisitElementRaises
    \/ AppendChild
    \/ AppendChildRaises
    \/ NextElement
    \/ Return
    \/ XmlReturn

Spec == Init /\ [][Next]_vars

InitLinks ==
    /\ html_in \in HtmlInputs
    /\ resource_id_by_href \in Indexes
    /\ html_out = <<>>
    /\ html_out2 = <<>>
    /\ warnings = <<>>
    /\ lpc = "start"
    /\ WalkIdle

NextLinks == RewritePass1 \/ RewritePass2

SpecLinks == InitLinks /\ [][NextLinks]_vars

(***************************************************************************)
(* Vocabulary of the properties.                                           *)
(***************************************************************************)
Containers == {"chapter", "sequential", "vertical"}
ContentTags == {"html", "video", "lti_consumer", "discussion", "problem"}
Supported == {HTML, VIDEO, LTI, QTI, DISCUSSION}

\* the tags on the way from below <course> down to doc[k], doc[k] included
RECURSIVE PathTags(_)
PathTags(k) == IF doc[k].parent = 0 THEN <<>> ELSE PathTags(doc[k].parent) \o <<doc[k].tag>>

IsContainerTag(t) == t \in Containers

\* the outline node at a path (a sequence of positions, outermost first)
RECURSIVE NodeIn(_, _)
NodeIn(course_data, path) ==
    IF Len(path) = 1 THEN course_data[path[1]]
    ELSE NodeIn(course_data[path[1]].children, Tail(path))

\* the paths of all nodes of an outline
RECURSIVE PathsIn(_, _)
PathsIn(course_data, prefix) ==
    UNION {{prefix \o <<i>>}
           \cup (IF "children" \in DOMAIN course_data[i]
                 THEN PathsIn(course_data[i].children, prefix \o <<i>>)
                 ELSE {}) : i \in 1..Len(course_data)}

\* the nodes below the three container levels
LeafPaths == {p \in PathsIn(outline, <<>>) : Len(p) > Len(Tags)}

\* the elements of the tree below <course>
Below == {k \in 1..Len(doc) : doc[k].parent # 0}

\* the elements of the tree made for the outline node at path p
MadeFor(p) == {k \in Below : doc[k].origin = p}

\* the loop of the innermost call is at a leaf-level node whose content has
\* been resolved and dispatched (lines 85-86 have run or raised)
LeafVisited ==
    /\ stack # <<>>
    /\ Top.tags = <<>>
    /\ Top.i <= Len(Top.course_data)
    /\ \/ Top.pc = "child"
       \/ status = "error" /\ Top.pc = "element"

\* the node lacks identifierref, or its lookup yields no content type
Unresolvable(node) ==
    \/ "identifierref" \notin DOMAIN node
    \/ get_resource_content(node.identifierref).content_type = None

(***************************************************************************)
(* C1: every content element of the document lies below exactly three      *)
(* container elements, chapter > sequential > vertical in this order, and  *)
(* every container element is the chapter, sequential or vertical of its   *)
(* depth; no container is created deeper than the third level.             *)
(***************************************************************************)
C1_ThreeContainerLevels ==
    \A k \in Below :
        LET p == PathTags(k)
        IN  /\ doc[k].tag \in Containers \cup ContentTags
            /\ doc[k].tag \in ContentTags =>
                 /\ SelectSeq(p, IsContainerTag) = Tags
                 /\ SubSeq(p, 1, Len(Tags)) = Tags
            /\ doc[k].tag \in Containers =>
                 /\ Len(p) <= Len(Tags)
                 /\ p = SubSeq(Tags, 1, Len(p))

\* a finished document with a content element below another content element
C1_Witness ==
    /\ status = "done"
    /\ \E k \in Below : doc[k].tag \in ContentTags /\ Len(PathTags(k)) > Len(Tags) + 1

(***************************************************************************)
(* C2: a leaf whose content type, after link reclassification, is not one  *)
(* of html, video, lti, qti, discussion never gets past the dispatch: the  *)
(* conversion ends with OlxExportException naming the type, xml() returns  *)
(* nothing, and no element made for that leaf is in the tree.              *)
(***************************************************************************)
C2_UnsupportedTypeIsFatal ==
    /\ LeafVisited /\ get_content(ElementData(Top)).content_type \notin Supported =>
         /\ status = "error"
         /\ exc = [type |-> "OlxExportException",
                   arg |-> get_content(ElementData(Top)).content_type]
         /\ MadeFor(Top.path \o <<Top.i>>) = {}
    /\ status = "error" => result = NoResult
    /\ status = "error" /\ exc.type = "OlxExportException" =>
         /\ LeafVisited
         /\ get_content(ElementData(Top)).content_type \notin Supported

\* the failure after an earlier leaf of the same vertical was appended
C2_Witness ==
    /\ status = "error"
    /\ exc.type = "OlxExportException"
    /\ Top.i > 1
    /\ \E k \in Below : doc[k].tag \in ContentTags

(***************************************************************************)
(* C3: every element made for an outline node with a title carries         *)
(* display_name = title and url_name = identifierref, and the conversion   *)
(* does not fail on such a node's attributes; an element made for a node   *)
(* without title gets no url_name.                                         *)
(***************************************************************************)
C3_TitledNodesGetNames ==
    /\ \A k \in Below :
         LET node == NodeIn(outline, doc[k].origin)
         IN  IF "title" \in DOMAIN node
             THEN /\ "identifierref" \in DOMAIN node
                  /\ doc[k].attrs["display_name"] = node.title
                  /\ doc[k].attrs["url_name"] = node.identifierref
             ELSE "url_name" \notin DOMAIN doc[k].attrs
    /\ ~(/\ status = "error"
         /\ exc.type = "KeyError"
         /\ "title" \in DOMAIN ElementData(Top))

(***************************************************************************)
(* C4: a leaf without identifierref, or whose lookup yields no content     *)
(* type, never makes the conversion fail and contributes exactly one html  *)
(* element, with the CDATA <p>MISSING CONTENT</p>, to the document.        *)
(***************************************************************************)
C4_MissingContentLeaf ==
    /\ status = "error" /\ Top.tags = <<>> => ~Unresolvable(ElementData(Top))
    /\ status = "done" =>
         \A p \in LeafPaths :
             Unresolvable(NodeIn(outline, p)) =>
                 /\ Cardinality(MadeFor(p)) = 1
                 /\ \A k \in MadeFor(p) :
                        doc[k].tag = "html" /\ doc[k].cdata = <<MISSING_CONTENT>>

(***************************************************************************)
(* C5: a leaf whose resource is of type link is dispatched as video, and   *)
(* yields exactly one video element with youtube = "1.00:<id>" and         *)
(* youtube_id_1_0 = <id>, when its href contains youtube.com/watch?v=<id>; *)
(* otherwise it is dispatched as html with the body <a href='href'>text</a>.*)
(* The type link itself never reaches the dispatch.                        *)
(***************************************************************************)
\* the <id> of the first "youtube.com/watch?v=<id>" in href, <<>> without one
RECURSIVE WatchId(_, _)
WatchId(href, i) ==
    IF i + 3 > Len(href) THEN <<>>
    ELSE IF MatchAt(href, i, <<"youtube", ".", "com/watch?v=">>) /\ href[i + 3] \in WordChunks
         THEN WordRun(href, i + 3)
         ELSE WatchId(href, i + 1)

C5_LinkReclassified ==
    (/\ LeafVisited
     /\ "identifierref" \in DOMAIN ElementData(Top)
     /\ get_resource_content(ElementData(Top).identifierref).content_type = LINK) =>
        LET details == get_resource_content(ElementData(Top).identifierref).details
            id == WatchId(details.href, 1)
        IN  /\ Top.content_type # LINK
            /\ status # "error"
            /\ IF id # <<>>
               THEN /\ Top.content_type = VIDEO
                    /\ Top.children = <<Element("video",
                           [youtube |-> <<"1.00:">> \o id, youtube_id_1_0 |-> id], <<>>)>>
               ELSE /\ Top.content_type = HTML
                    /\ Len(Top.children) = 1
                    /\ Top.children[1].tag = "html"
                    /\ Top.children[1].cdata =
                         <<<<"<a href='">> \o details.href \o <<"'>">>
                             \o GetText(details) \o <<"</a>">>>>

(***************************************************************************)
(* C9: the synthesis of a discussion resource returns exactly two nodes,   *)
(* [html, discussion]: the html node holds details["text"] verbatim as its *)
(* CDATA, the discussion node has display_name "" and discussion_category  *)
(* and discussion_target equal to details["title"].                        *)
(***************************************************************************)
C9_DiscussionSynthesis ==
    (/\ LeafVisited
     /\ "identifierref" \in DOMAIN ElementData(Top)
     /\ get_resource_content(ElementData(Top).identifierref).content_type = DISCUSSION) =>
        LET details == get_resource_content(ElementData(Top).identifierref).details
        IN  /\ status # "error" \/ exc.type = "KeyError"
            /\ Len(Top.children) = 2
            /\ Top.children[1] = [tag |-> "html", attrs |-> <<>>, cdata |-> <<details.text>>]
            /\ Top.children[2].tag = "discussion"
            /\ Top.children[2].cdata = <<>>
            /\ DOMAIN Top.children[2].attrs = {"display_name", "discussion_category", "discussion_target"}
            /\ Top.children[2].attrs["display_name"] = ""
            /\ Top.children[2].attrs["discussion_category"] = details.title
            /\ Top.children[2].attrs["discussion_target"] = details.title

\* a discussion just synthesized, its text holding a placeholder token and an
\* iframe, with the iframe extraction switched on
C9_Witness ==
    /\ LeafVisited
    /\ status = "running"
    /\ Top.content_type = DISCUSSION
    /\ Top.j = 1
    /\ link_file
    /\ Contains(Top.children[1].cdata[1], FILEBASE)
    /\ Contains(Top.children[1].cdata[1], <<KalturaIframe>>)

(***************************************************************************)
(* C10: every leaf-level outline node is converted exactly once: when the  *)
(* conversion is done, the tree holds, for each leaf-level node (children  *)
(* of leaf-level nodes included), exactly the nodes synthesized for it,    *)
(* once, however many nodes its parent produced.                           *)
(***************************************************************************)
SynthesizedFor(node) ==
    create_olx_nodes(get_content(node).content_type, get_content(node).details,
                     link_file, resource_id_by_href).nodes

C10_LeavesConvertedOnce ==
    status = "done" =>
        \A p \in LeafPaths :
            Cardinality(MadeFor(p)) = Len(SynthesizedFor(NodeIn(outline, p)))

(***************************************************************************)
(* Vocabulary of the properties of _process_static_links.                  *)
(***************************************************************************)
\* the attribute values re.findall sees in a text, in order
ValuesOf(h) == [k \in 1..Len(FindAll(h)) |-> FindAll(h)[k][2]]

HasFilebaseToken(v) == Contains(v, FILEBASE)
HasWikiToken(v) == Contains(v, <<"$", "WIKI_REFERENCE", "$">>)
\* no text of a placeholder at all, with or without its dollar signs
Plain(v) == ~Contains(v, <<"IMS-CC-FILEBASE">>) /\ ~Contains(v, <<"WIKI_REFERENCE">>)

\* the keys of the index that end with the normalized key of a wiki value
MatchingKeys(v, index) ==
    {k \in 1..Len(index) :
        EndsWith(index[k].key,
                 SplitQuery(Replace(Unquote(v), WIKIPAGES, <<>>)) \o <<".html">>)}

\* what the value is to become
ClaimedValue(v, index) ==
    IF HasFilebaseToken(v)
    THEN Replace(SplitQuery(Replace(Unquote(v), FILEBASE, <<"/static">>)), <<"&amp;">>, <<"&">>)
    ELSE IF HasWikiToken(v) /\ Cardinality(MatchingKeys(v, index)) = 1
         THEN <<"/jump_to_id/", index[CHOOSE k \in MatchingKeys(v, index) : TRUE].id>>
         ELSE v

Rewritten == lpc \in {"pass1", "pass2"}

(***************************************************************************)
(* C6: in the result of _process_static_links, every src/href value that   *)
(* contains $IMS-CC-FILEBASE$ is replaced, where it stands, by its own     *)
(* percent-decoded form with the token replaced by /static, the query      *)
(* dropped and &amp; unescaped, also when one value is a prefix of         *)
(* another; the values without a placeholder are unchanged.                *)
(***************************************************************************)
C6_FilebaseValuesRewritten ==
    (/\ Rewritten
     /\ \A k \in 1..Len(ValuesOf(html_in)) :
            HasFilebaseToken(ValuesOf(html_in)[k]) \/ Plain(ValuesOf(html_in)[k])) =>
        ValuesOf(html_out) =
            [k \in 1..Len(ValuesOf(html_in)) |-> ClaimedValue(ValuesOf(html_in)[k], resource_id_by_href)]

(***************************************************************************)
(* C7: every src/href value that contains $WIKI_REFERENCE$ (and no         *)
(* file-base token) is replaced by /jump_to_id/<id> when exactly one key   *)
(* of resource_id_by_href ends with its normalized key, and is left        *)
(* byte-identical, with a warning logged, when no key does.                *)
(***************************************************************************)
C7_WikiValuesResolved ==
    (/\ Rewritten
     /\ \A k \in 1..Len(ValuesOf(html_in)) :
            LET v == ValuesOf(html_in)[k]
            IN  \/ Plain(v)
                \/ /\ HasWikiToken(v)
                   /\ ~Contains(v, <<"IMS-CC-FILEBASE">>)
                   /\ Cardinality(MatchingKeys(v, resource_id_by_href)) <= 1) =>
        /\ ValuesOf(html_out) =
             [k \in 1..Len(ValuesOf(html_in)) |-> ClaimedValue(ValuesOf(html_in)[k], resource_id_by_href)]
        /\ \A k \in 1..Len(ValuesOf(html_in)) :
             LET v == ValuesOf(html_in)[k]
             IN  HasWikiToken(v) /\ MatchingKeys(v, resource_id_by_href) = {} =>
                     \E w \in 1..Len(warnings) : warnings[w] = v

(***************************************************************************)
(* C8: rewriting is idempotent.  As claimed, for every HTML text: a second *)
(* pass over the result of the first changes nothing.                      *)
(***************************************************************************)
C8_Idempotent == lpc = "pass2" => html_out2 = html_out

(***************************************************************************)
(* C8, amended: a second pass changes nothing when no src/href value of    *)
(* the first pass's result contains the text IMS-CC-FILEBASE or            *)
(* WIKI_REFERENCE.                                                         *)
(***************************************************************************)
NoTokenValues(h) == \A k \in 1..Len(ValuesOf(h)) : Plain(ValuesOf(h)[k])

C8_IdempotentWithoutTokens ==
    lpc = "pass2" /\ NoTokenValues(html_out) => html_out2 = html_out

\* a second pass over a result the first pass rewrote and left without tokens
C8_Witness ==
    /\ lpc = "pass2"
    /\ NoTokenValues(html_out)
    /\ html_out # html_in
    /\ Len(ValuesOf(html_out)) > 1

====
